---- MODULE Spec2Model ----
(***************************************************************************)
(* Model of the Cassandra Ansible modules of this repository:              *)
(*   library/cassandra_connection.py  (readiness probe)                    *)
(*   library/cassandra_keyspace.py    (keyspace reconciler)                *)
(*   library/cassandra_table.py       (table reconciler)                   *)
(* Each module's main() is modelled at the granularity of one cqlsh        *)
(* round trip (one Popen(...).communicate()) per action, together with the *)
(* local code that runs up to the next round trip or the module's exit.    *)
(* The store (the Cassandra cluster behind cqlsh) is the only shared       *)
(* state; every round trip may return a non-zero status.                   *)
(***************************************************************************)
EXTENDS Integers, Sequences, FiniteSets, TLC

VARIABLES
    (* ---- cassandra_connection.py: main() ---- *)
    retries,        \* module.params["retries"]
    count,          \* local `count`
    errors_set,     \* local `errors_set`: a set of exception objects
    p_pc,           \* "loop" (at the while test) | "done"
    p_result,       \* what the module reported: exit_json / fail_json
    attempts,       \* number of attempt_connection() calls made
    sleeps,         \* number of time.sleep(1) calls made
    history,        \* the store's answer to each attempt, in order
    (* ---- cassandra_keyspace.py: main() ---- *)
    keyspaces,      \* the store: keyspace name -> [exists, rf]
    k_spec,         \* module.params: [name, replication_factor, state]
    k_pc,           \* position in main()
    k_exists,       \* local `exists`
    k_stmts,        \* round trips of the current call, in order
    k_result,       \* what the current call reported
    k_results,      \* the reports of the calls completed so far
    k_allok,        \* every round trip so far returned status 0, well formed
    k_initial,      \* the store's state of the keyspace before the first call
    k_out,          \* stdout of the current call's "Describe keyspace", <<>> if none
    (* ---- cassandra_table.py: main() ---- *)
    tables,         \* the store: the tables of the keyspace, name -> statement
    t_spec,         \* module.params
    t_pc,           \* position in main()
    t_exists,       \* local `exists`
    t_stmts,        \* round trips of the current call, in order
    t_result,       \* what the current call reported
    t_results,      \* the reports of the calls completed so far
    t_allok,        \* every round trip so far returned status 0
    t_initial,      \* whether the table existed before the first call
    (* ---- cassandra_table.py: main() in a second process ---- *)
    u_spec,         \* module.params of the second process
    u_pc,           \* its position in main()
    u_exists,       \* its local `exists`
    u_stmts,        \* its round trips, in order
    u_result        \* what it reported

p_vars == <<retries, count, errors_set, p_pc, p_result, attempts, sleeps, history>>
k_vars == <<keyspaces, k_spec, k_pc, k_exists, k_stmts, k_result, k_results,
            k_allok, k_initial, k_out>>
t_vars == <<tables, t_spec, t_pc, t_exists, t_stmts, t_result, t_results,
            t_allok, t_initial>>
u_vars == <<u_spec, u_pc, u_exists, u_stmts, u_result>>
vars == <<p_vars, k_vars, t_vars, u_vars>>

(* ------------------------------ bounds --------------------------------- *)
MaxRetries == 4
MaxRF == 3
MaxCalls == 2
MaxCols == 2

(* ------------------------- general helpers ----------------------------- *)
\* Python's sep.join(seq) on a sequence of strings.
RECURSIVE join(_, _)
join(sep, seq) ==
    IF Len(seq) = 0 THEN ""
    ELSE IF Len(seq) = 1 THEN seq[1]
    ELSE seq[1] \o sep \o join(sep, Tail(seq))

\* Every ordering of a finite set: what list(a_set) may return.
Orderings(S) ==
    {f \in [1..Cardinality(S) -> S] : \A i, j \in 1..Cardinality(S) : f[i] = f[j] => i = j}

Range(seq) == {seq[i] : i \in 1..Len(seq)}

NoProbeResult == [kind |-> "none", changed |-> FALSE, msg |-> <<>>]
NoResult == [kind |-> "none", changed |-> FALSE, msg |-> ""]

(***************************************************************************)
(*                  cassandra_connection.py: the probe                     *)
(***************************************************************************)
\* The stderr texts a failing cqlsh may print.
ErrTexts == {"connection refused", "authentication rejected"}

\* module.params["retries"] is any int: negative, zero or positive.
RetryBudgets == {-1} \cup (0..MaxRetries)

\* `raise Exception(err)`: a fresh exception object on every failed attempt.
\* Exception defines neither __eq__ nor __hash__, so two exception objects
\* are equal only if they are the same object: `obj` is the object identity.
NewException(n, err) == [obj |-> n, args |-> err]

\* errors_set.add(current_err): the exception object itself is the element.
errors_add(S, e) == S \cup {e}

\* the while test of main()
\* (variant with the comparison off by one: while count <= retries)
loop_test_off_by_one(c, r) == c <= r
loop_test(c, r) == c < r

InitProbe ==
    /\ retries \in RetryBudgets
    /\ count = 0
    /\ errors_set = {}
    /\ p_pc = "loop"
    /\ p_result = NoProbeResult
    /\ attempts = 0
    /\ sleeps = 0
    /\ history = <<>>

IdleProbe ==
    /\ retries = 0
    /\ count = 0
    /\ errors_set = {}
    /\ p_pc = "idle"
    /\ p_result = NoProbeResult
    /\ attempts = 0
    /\ sleeps = 0
    /\ history = <<>>

\* one pass of the loop body whose attempt_connection() raises:
\* errors_set.add(current_err); time.sleep(1); count += 1
\* (variant that sleeps only when another attempt follows)
sleeps_after_failure_skip_last(s, c, r) == IF c + 1 < r THEN s + 1 ELSE s
sleeps_after_failure(s, c, r) == s + 1

\* (attempt_fails_do_while: variant whose loop tests after the first pass)
attempt_fails_do_while ==
    /\ p_pc = "loop"
    /\ count = 0 \/ loop_test(count, retries)
    /\ \E err \in ErrTexts :
        /\ history' = Append(history, err)
        /\ errors_set' = errors_add(errors_set, NewException(attempts + 1, err))
    /\ attempts' = attempts + 1
    /\ sleeps' = sleeps_after_failure(sleeps, count, retries)
    /\ count' = count + 1
    /\ UNCHANGED <<retries, p_pc, p_result>>
attempt_fails ==
    /\ p_pc = "loop"
    /\ loop_test(count, retries)
    /\ \E err \in ErrTexts :
        /\ history' = Append(history, err)
        /\ errors_set' = errors_add(errors_set, NewException(attempts + 1, err))
    /\ attempts' = attempts + 1
    /\ sleeps' = sleeps_after_failure(sleeps, count, retries)
    /\ count' = count + 1
    /\ UNCHANGED <<retries, p_pc, p_result>>

\* one pass of the loop body whose attempt_connection() returns:
\* the else clause of the try runs module.exit_json(changed=False)
\* (variant whose else clause counts the attempt and does not exit)
attempt_succeeds_keep_looping ==
    /\ p_pc = "loop"
    /\ loop_test(count, retries)
    /\ history' = Append(history, "ok")
    /\ attempts' = attempts + 1
    /\ count' = count + 1
    /\ UNCHANGED <<retries, errors_set, sleeps, p_pc, p_result>>
attempt_succeeds ==
    /\ p_pc = "loop"
    /\ loop_test(count, retries)
    /\ history' = Append(history, "ok")
    /\ attempts' = attempts + 1
    /\ p_result' = [kind |-> "exit", changed |-> FALSE, msg |-> <<>>]
    /\ p_pc' = "done"
    /\ UNCHANGED <<retries, count, errors_set, sleeps>>

\* the else clause of the while: module.fail_json(msg=list(errors_set))
budget_exhausted ==
    /\ p_pc = "loop"
    /\ ~loop_test(count, retries)
    /\ \E l \in Orderings(errors_set) :
        p_result' = [kind |-> "fail", changed |-> FALSE, msg |-> l]
    /\ p_pc' = "done"
    /\ UNCHANGED <<retries, count, errors_set, attempts, sleeps, history>>

NextProbe ==
    \/ attempt_fails /\ UNCHANGED <<k_vars, t_vars, u_vars>>
    \/ attempt_succeeds /\ UNCHANGED <<k_vars, t_vars, u_vars>>
    \/ budget_exhausted /\ UNCHANGED <<k_vars, t_vars, u_vars>>

(***************************************************************************)
(*               cassandra_keyspace.py: the keyspace reconciler            *)
(***************************************************************************)
\* The keyspace names of the model, in the order the store lists them.
KsNames == <<"pluto", "test_keyspace">>
DesiredRFs == 0..MaxRF
StoredRFs == 1..MaxRF
States == {"present", "absent"}

AbsentKs == [exists |-> FALSE, rf |-> 0]
PresentKs(rf) == [exists |-> TRUE, rf |-> rf]

\* CREATE_CMD.format(keyspace, replication_factor)
\* (variant that formats the parameter's default, 1, instead of its value)
CREATE_CMD_no_rf(keyspace, replication_factor) ==
    "CREATE KEYSPACE " \o keyspace
        \o " WITH replication = {'class':'SimpleStrategy', 'replication_factor' : "
        \o ToString(1) \o "};"
CREATE_CMD(keyspace, replication_factor) ==
    "CREATE KEYSPACE " \o keyspace
        \o " WITH replication = {'class':'SimpleStrategy', 'replication_factor' : "
        \o ToString(replication_factor) \o "};"

\* ALTER_CMD.format(keyspace, replication_factor)
ALTER_CMD(keyspace, replication_factor) ==
    "ALTER KEYSPACE " \o keyspace
        \o " WITH REPLICATION = {'class': 'SimpleStrategy', 'replication_factor': "
        \o ToString(replication_factor) \o "};"

\* One cqlsh round trip: the statement text passed with -e, what it asks of
\* the store, and whether cqlsh returned status 0.
RoundTrip(kind, name, rf, cmd, ok) ==
    [kind |-> kind, name |-> name, rf |-> rf, cmd |-> cmd, ok |-> ok]

Mutating == {"CREATE", "ALTER", "DROP"}

\* ---- the store's side of cqlsh ----
\* stdout of "DESC KEYSPACES;": the names of the existing keyspaces, after
\* the system keyspaces, separated by white space.
DescKeyspacesOut(ks) ==
    <<"system_schema", "system">> \o SelectSeq(KsNames, LAMBDA n : ks[n].exists)

\* stdout of "Describe keyspace <name>;": text with brace groups; the first
\* group is the replication map, whose values cqlsh prints quoted.
Text(t) == [brace |-> FALSE, text |-> t, pairs |-> <<>>]
Brace(pairs) == [brace |-> TRUE, text |-> "", pairs |-> pairs]
DescribeKeyspaceOut(name, k) ==
    << Text("CREATE KEYSPACE " \o name \o " WITH replication ="),
       Brace(<< <<"class", "SimpleStrategy">>,
                <<"replication_factor", ToString(k.rf)>> >>),
       Text("AND durable_writes = true;") >>

\* the same for a keyspace that holds a table: the CREATE TABLE statement
\* follows, with brace groups of its own (caching, compaction, ...)
DescribeWithTableOut(name, k) ==
    DescribeKeyspaceOut(name, k) \o
    << Text("CREATE TABLE " \o name \o ".t (...) WITH caching ="),
       Brace(<< <<"keys", "ALL">>, <<"rows_per_partition", "NONE">> >>),
       Text("AND compaction ="),
       Brace(<< <<"class", "SizeTieredCompactionStrategy">>,
                <<"max_threshold", "32">> >>),
       Text(";") >>
WellFormedDescribeOuts(name, k) ==
    {DescribeKeyspaceOut(name, k), DescribeWithTableOut(name, k)}

\* Describe outputs whose format is not the one the parser relies on.
MalformedDescribeOuts ==
    { << Text("CREATE KEYSPACE") >>,
      << Text("CREATE KEYSPACE"), Brace(<< <<"class", "SimpleStrategy">> >>) >>,
      << Text("CREATE KEYSPACE"), Brace(<< <<"replication_factor", "three">> >>) >> }

\* ---- the parsers ----
\* keyspace in [k for k in out.split()]; the table module tests
\* table in [t for t in out.split()] the same way
\* (variant that looks at the first token only)
token_in_output_first_only(keyspace, out) == Len(out) > 0 /\ out[1] = keyspace
token_in_output(keyspace, out) == \E i \in 1..Len(out) : out[i] = keyspace

\* re.search("{(.*?)}", out): the index of the first brace group, 0 for None
\* (first_brace_greedy: variant that takes the last group)
first_brace_greedy(out) ==
    IF \E i \in 1..Len(out) : out[i].brace
    THEN CHOOSE i \in 1..Len(out) : out[i].brace /\ \A j \in (i + 1)..Len(out) : ~out[j].brace
    ELSE 0
first_brace(out) ==
    IF \E i \in 1..Len(out) : out[i].brace
    THEN CHOOSE i \in 1..Len(out) : out[i].brace /\ \A j \in 1..(i - 1) : ~out[j].brace
    ELSE 0

\* ast.literal_eval("{...}")[key]: the value of the last pair with that key
dict_has(pairs, key) == \E i \in 1..Len(pairs) : pairs[i][1] = key
dict_get(pairs, key) ==
    LET i == CHOOSE i \in 1..Len(pairs) :
                 /\ pairs[i][1] = key
                 /\ \A j \in (i + 1)..Len(pairs) : pairs[j][1] # key
    IN pairs[i][2]

\* int(s) for the decimal strings of the model; ValueError otherwise
is_int(s) == \E n \in 0..(MaxRF + 1) : ToString(n) = s
int(s) == CHOOSE n \in 0..(MaxRF + 1) : ToString(n) = s

\* get_current_replication_factor, after the round trip returned status 0:
\* [ok |-> TRUE, value] or the exception raised
parse_replication_factor(out) ==
    IF first_brace(out) = 0
    THEN [ok |-> FALSE, value |-> 0, exc |-> "AttributeError"]
    ELSE LET pairs == out[first_brace(out)].pairs IN
         IF ~dict_has(pairs, "replication_factor")
         THEN [ok |-> FALSE, value |-> 0, exc |-> "KeyError"]
         ELSE IF ~is_int(dict_get(pairs, "replication_factor"))
         THEN [ok |-> FALSE, value |-> 0, exc |-> "ValueError"]
         ELSE [ok |-> TRUE, value |-> int(dict_get(pairs, "replication_factor")),
               exc |-> ""]

\* ---- calls that Python cannot bind ----
\* the functions the module defines
ModuleFunctions ==
    {"keyspace_already_exists", "create_keyspace", "get_current_replication_factor",
     "update_keyspace_replication", "drop_keyspace", "main"}
\* main() calls delete_keyspace(...) on the state=absent path
DeleteCallee == "delete_keyspace"
\* def update_keyspace_replication(keyspace, host, port, cql_version, replication_factor)
update_keyspace_replication_params ==
    <<"keyspace", "host", "port", "cql_version", "replication_factor">>
\* the call in main(): update_keyspace_replication(keyspace, host, replication_factor)
update_keyspace_replication_args == <<"keyspace", "host", "replication_factor">>
\* a positional call binds only when it gives every parameter (none has a default)
call_binds(args, params) == Len(args) = Len(params)

ExitJson(changed) == [kind |-> "exit", changed |-> changed, msg |-> ""]
FailJson(msg) == [kind |-> "fail", changed |-> FALSE, msg |-> msg]
\* an exception nobody catches: the module ends in a traceback
Traceback(exc) == [kind |-> "crash", changed |-> FALSE, msg |-> exc]

KeyspaceSpecs == [name : Range(KsNames), replication_factor : DesiredRFs, state : States]

InitKs ==
    /\ keyspaces \in [Range(KsNames) -> {AbsentKs} \cup {PresentKs(rf) : rf \in StoredRFs}]
    /\ k_spec \in KeyspaceSpecs
    /\ k_pc = "exists"
    /\ k_exists = FALSE
    /\ k_stmts = <<>>
    /\ k_result = NoResult
    /\ k_results = <<>>
    /\ k_allok = TRUE
    /\ k_initial = keyspaces[k_spec.name]
    /\ k_out = <<>>

IdleKs ==
    /\ keyspaces = [n \in Range(KsNames) |-> AbsentKs]
    /\ k_spec = [name |-> KsNames[1], replication_factor |-> 1, state |-> "present"]
    /\ k_pc = "idle"
    /\ k_exists = FALSE
    /\ k_stmts = <<>>
    /\ k_result = NoResult
    /\ k_results = <<>>
    /\ k_allok = TRUE
    /\ k_initial = AbsentKs
    /\ k_out = <<>>

\* the call ends: module.exit_json / module.fail_json / a traceback
\* (ks_finish_retrying: variant that starts over after a failure instead of
\* reporting it)
ks_finish_retrying(r) ==
    IF r.kind = "fail" /\ Len(k_stmts) < MaxCalls
    THEN /\ k_pc' = "exists"
         /\ UNCHANGED <<k_result, k_results>>
    ELSE /\ k_result' = r
         /\ k_results' = Append(k_results, r)
         /\ k_pc' = "done"
ks_finish(r) ==
    /\ k_result' = r
    /\ k_results' = Append(k_results, r)
    /\ k_pc' = "done"

\* the round trip of update_keyspace_replication and main()'s try/except/else
\* around it (reached only if the call binds)
update_keyspace_replication(stmts, allok, ok) ==
    LET keyspace == k_spec.name
        replication_factor == k_spec.replication_factor
    IN  /\ k_stmts' = Append(stmts, RoundTrip("ALTER", keyspace, replication_factor,
                                              ALTER_CMD(keyspace, replication_factor), ok))
        /\ k_allok' = (allok /\ ok)
        /\ keyspaces' = IF ok THEN [keyspaces EXCEPT ![keyspace] = PresentKs(replication_factor)]
                        ELSE keyspaces
        /\ ks_finish(IF ok THEN ExitJson(TRUE)
                     ELSE FailJson("Error updating keyspace: Bad returncode"))

\* the round trip of drop_keyspace and main()'s try/except/else around it
\* (reached only if the name main() calls is defined)
drop_keyspace(stmts, allok, ok) ==
    LET keyspace == k_spec.name
    IN  /\ k_stmts' = Append(stmts, RoundTrip("DROP", keyspace, 0,
                                              "DROP KEYSPACE " \o keyspace \o ";", ok))
        /\ k_allok' = (allok /\ ok)
        /\ keyspaces' = IF ok THEN [keyspaces EXCEPT ![keyspace] = AbsentKs] ELSE keyspaces
        /\ ks_finish(IF ok THEN ExitJson(TRUE)
                     ELSE FailJson("Error deleting keyspace: Bad returncode"))

\* main(): exists = keyspace_already_exists(...), then the branch on state
\* and exists up to the next round trip
ks_exists ==
    /\ k_pc = "exists"
    /\ \E ok \in BOOLEAN :
        LET out == DescKeyspacesOut(keyspaces)
            stmts == Append(k_stmts, RoundTrip("DESC KEYSPACES", "", 0, "DESC KEYSPACES;", ok))
            exists == token_in_output(k_spec.name, out)
        IN  IF ~ok
            THEN /\ ks_finish(FailJson("Bad returncode"))
                 /\ k_stmts' = stmts
                 /\ k_allok' = FALSE
                 /\ UNCHANGED <<keyspaces, k_exists>>
            ELSE /\ k_exists' = exists
                 /\ IF k_spec.state = "present"
                    THEN /\ k_pc' = IF exists THEN "describe" ELSE "create"
                         /\ k_stmts' = stmts
                         /\ UNCHANGED <<keyspaces, k_result, k_results, k_allok>>
                    ELSE IF ~exists
                    THEN /\ ks_finish(ExitJson(FALSE))
                         /\ k_stmts' = stmts
                         /\ UNCHANGED <<keyspaces, k_allok>>
                    ELSE IF DeleteCallee \in ModuleFunctions
                    THEN \E ok2 \in BOOLEAN : drop_keyspace(stmts, k_allok, ok2)
                    ELSE /\ ks_finish(FailJson("Error deleting keyspace: NameError"))
                         /\ k_stmts' = stmts
                         /\ UNCHANGED <<keyspaces, k_allok>>
    /\ UNCHANGED <<k_spec, k_initial, k_out>>

\* main(): current_rep_factor = get_current_replication_factor(...), outside
\* any try, then the comparison and the update branch
ks_describe ==
    /\ k_pc = "describe"
    /\ \E ok \in BOOLEAN :
       \E out \in WellFormedDescribeOuts(k_spec.name, keyspaces[k_spec.name])
                     \cup MalformedDescribeOuts :
        LET stmts == Append(k_stmts, RoundTrip("DESCRIBE KEYSPACE", k_spec.name, 0,
                                "Describe keyspace " \o k_spec.name \o ";", ok))
            wellformed == out \in WellFormedDescribeOuts(k_spec.name, keyspaces[k_spec.name])
            parsed == parse_replication_factor(out)
            allok == k_allok /\ ok /\ wellformed
        IN  /\ k_out' = (IF ok THEN out ELSE <<>>)
            /\ IF ~ok
               THEN /\ ks_finish(Traceback("Exception"))
                    /\ k_stmts' = stmts
                    /\ k_allok' = FALSE
                    /\ UNCHANGED keyspaces
               ELSE IF ~parsed.ok
               THEN /\ ks_finish(Traceback(parsed.exc))
                    /\ k_stmts' = stmts
                    /\ k_allok' = allok
                    /\ UNCHANGED keyspaces
               ELSE IF parsed.value = k_spec.replication_factor
               THEN /\ ks_finish(ExitJson(FALSE))
                    /\ k_stmts' = stmts
                    /\ k_allok' = allok
                    /\ UNCHANGED keyspaces
               ELSE IF call_binds(update_keyspace_replication_args,
                                  update_keyspace_replication_params)
               THEN \E ok2 \in BOOLEAN : update_keyspace_replication(stmts, allok, ok2)
               ELSE /\ ks_finish(FailJson("Error updating keyspace: TypeError"))
                    /\ k_stmts' = stmts
                    /\ k_allok' = allok
                    /\ UNCHANGED keyspaces
    /\ UNCHANGED <<k_spec, k_exists, k_initial>>

\* main(): create_keyspace(...) inside try/except/else
ks_create ==
    /\ k_pc = "create"
    /\ \E ok \in BOOLEAN :
        LET keyspace == k_spec.name
            replication_factor == k_spec.replication_factor
        IN  /\ k_stmts' = Append(k_stmts, RoundTrip("CREATE", keyspace, replication_factor,
                                          CREATE_CMD(keyspace, replication_factor), ok))
            /\ k_allok' = (k_allok /\ ok)
            /\ keyspaces' = IF ok
                            THEN [keyspaces EXCEPT ![keyspace] = PresentKs(replication_factor)]
                            ELSE keyspaces
            /\ ks_finish(IF ok THEN ExitJson(TRUE)
                         ELSE FailJson("Error creating keyspace: Bad returncode"))
    /\ UNCHANGED <<k_spec, k_exists, k_initial, k_out>>

\* the caller runs the module again with the same parameters
ks_run_again ==
    /\ k_pc = "done"
    /\ Len(k_results) < MaxCalls
    /\ k_pc' = "exists"
    /\ k_exists' = FALSE
    /\ k_stmts' = <<>>
    /\ k_result' = NoResult
    /\ k_out' = <<>>
    /\ UNCHANGED <<keyspaces, k_spec, k_results, k_allok, k_initial>>

NextKs ==
    \/ ks_exists /\ UNCHANGED <<p_vars, t_vars, u_vars>>
    \/ ks_describe /\ UNCHANGED <<p_vars, t_vars, u_vars>>
    \/ ks_create /\ UNCHANGED <<p_vars, t_vars, u_vars>>
    \/ ks_run_again /\ UNCHANGED <<p_vars, t_vars, u_vars>>

(***************************************************************************)
(*                 cassandra_table.py: the table reconciler                *)
(***************************************************************************)
\* The table names of the model, in the order the store lists them.
TblNames == <<"events", "test_table">>

\* A column is a dict: a function whose domain may lack "name" or "type".
NoKeys == [k \in {} |-> ""]
ColumnChoices ==
    { [name |-> "a", type |-> "int"], [name |-> "b", type |-> "text"],
      [name |-> "a"], [type |-> "int"], NoKeys }
ColumnLists == UNION {[1..n -> ColumnChoices] : n \in 0..MaxCols}

\* order_by: not given (None), or a list
NoOrderBy == [given |-> FALSE, cols |-> <<>>]
OrderBy(cols) == [given |-> TRUE, cols |-> cols]

\* the example of the module's documentation
ExampleColumns ==
    << [name |-> "datastream", type |-> "text"],
       [name |-> "time", type |-> "timestamp"],
       [name |-> "value", type |-> "float"] >>
ExampleSpecs ==
    [name : {"events"}, keyspace : {"pluto"}, columns : {ExampleColumns},
     primary_keys : {<<"datastream", "time">>},
     order_by : {OrderBy(<<"time">>)}, order_by_direction : {"DESC"},
     state : States]

TableSpecs ==
    [name : Range(TblNames), keyspace : {"pluto"}, columns : ColumnLists,
     primary_keys : {<<"a">>, <<"a", "b">>},
     order_by : {NoOrderBy, OrderBy(<<>>), OrderBy(<<"b">>), OrderBy(<<"a", "b">>)},
     order_by_direction : {"ASC", "DESC"},
     state : States]
    \cup ExampleSpecs

\* validate_columns(columns): one entry per missing key, in column order,
\* 'name' before 'type'
\* (validate_columns_fail_fast: variant that returns at the first error)
MissingKey(key, col) == [missing |-> key, column |-> col]
RECURSIVE validate_columns_fail_fast(_)
validate_columns_fail_fast(columns) ==
    IF Len(columns) = 0 THEN <<>>
    ELSE LET col == Head(columns) IN
         IF "name" \notin DOMAIN col THEN <<MissingKey("name", col)>>
         ELSE IF "type" \notin DOMAIN col THEN <<MissingKey("type", col)>>
         ELSE validate_columns_fail_fast(Tail(columns))
RECURSIVE validate_columns(_)
validate_columns(columns) ==
    IF Len(columns) = 0 THEN <<>>
    ELSE LET col == Head(columns) IN
         (IF "name" \notin DOMAIN col THEN <<MissingKey("name", col)>> ELSE <<>>)
         \o (IF "type" \notin DOMAIN col THEN <<MissingKey("type", col)>> ELSE <<>>)
         \o validate_columns(Tail(columns))

\* Python truth value of order_by: None and [] are false
truthy(order_by) == order_by.given /\ Len(order_by.cols) > 0

\* the cmd that create_table builds
column_defs(columns) == [i \in 1..Len(columns) |-> columns[i].name \o " " \o columns[i].type]
create_table_cmd(table, columns, primary_keys, order_by, order_by_direction) ==
    LET cmd == "CREATE TABLE " \o table \o "(" \o join(", ", column_defs(columns))
                   \o ", PRIMARY KEY (" \o join(", ", primary_keys) \o "))"
    IN  IF truthy(order_by)
        THEN cmd \o "WITH CLUSTERING ORDER BY (" \o join(", ", order_by.cols)
                 \o " " \o order_by_direction \o ");"
        ELSE cmd

\* the cmd that drop_table builds
drop_table_cmd(table) == "DROP TABLE " \o table \o ";"

\* stdout of "Describe tables;" run with -k <keyspace>
DescTablesOut(tbls) ==
    LET names == SelectSeq(TblNames, LAMBDA n : tbls[n].exists)
    IN  IF Len(names) = 0 THEN <<"<empty>">> ELSE names

AbsentTbl == [exists |-> FALSE, cmd |-> ""]
\* a table somebody created earlier, with a structure of its own
OldTbl == [exists |-> TRUE, cmd |-> "CREATE TABLE (earlier)"]
NewTbl(cmd) == [exists |-> TRUE, cmd |-> cmd]

NoTblResult == [kind |-> "none", changed |-> FALSE, msg |-> "", errors |-> <<>>]
TblExit(changed) == [kind |-> "exit", changed |-> changed, msg |-> "", errors |-> <<>>]
TblFail(msg) == [kind |-> "fail", changed |-> FALSE, msg |-> msg, errors |-> <<>>]
TblInvalid(errors) == [kind |-> "fail", changed |-> FALSE, msg |-> "", errors |-> errors]

InitTbl ==
    /\ tables \in [Range(TblNames) -> {AbsentTbl, OldTbl}]
    /\ t_spec \in TableSpecs
    /\ t_pc = "validate"
    /\ t_exists = FALSE
    /\ t_stmts = <<>>
    /\ t_result = NoTblResult
    /\ t_results = <<>>
    /\ t_allok = TRUE
    /\ t_initial = tables[t_spec.name].exists

IdleTbl ==
    /\ tables = [n \in Range(TblNames) |-> AbsentTbl]
    /\ t_spec = CHOOSE sp \in ExampleSpecs : sp.state = "present"
    /\ t_pc = "idle"
    /\ t_exists = FALSE
    /\ t_stmts = <<>>
    /\ t_result = NoTblResult
    /\ t_results = <<>>
    /\ t_allok = TRUE
    /\ t_initial = FALSE

\* the call ends: module.exit_json / module.fail_json
\* (tbl_finish_retrying: variant that starts over after a failed statement
\* instead of reporting it)
tbl_finish_retrying(r) ==
    IF r.kind = "fail" /\ Len(r.errors) = 0 /\ Len(t_stmts) <= MaxCalls
    THEN /\ t_pc' = "exists"
         /\ UNCHANGED <<t_result, t_results>>
    ELSE /\ t_result' = r
         /\ t_results' = Append(t_results, r)
         /\ t_pc' = "done"
tbl_finish(r) ==
    /\ t_result' = r
    /\ t_results' = Append(t_results, r)
    /\ t_pc' = "done"

\* main(): column_errors = validate_columns(columns); fail_json if any
tbl_validate ==
    /\ t_pc = "validate"
    /\ LET column_errors == validate_columns(t_spec.columns)
       IN  IF Len(column_errors) > 0
           THEN tbl_finish(TblInvalid(column_errors))
           ELSE /\ t_pc' = "exists"
                /\ UNCHANGED <<t_result, t_results>>
    /\ UNCHANGED <<tables, t_spec, t_exists, t_stmts, t_allok, t_initial>>

\* main(): exists = table_already_exists(...), then the branch on state and
\* exists up to the next round trip
\* (tbl_exists_always_creates: variant whose state=present branch does not
\* test exists before it creates)
tbl_exists_always_creates ==
    /\ t_pc = "exists"
    /\ \E ok \in BOOLEAN :
        LET out == DescTablesOut(tables)
            exists == token_in_output(t_spec.name, out)
        IN  /\ t_stmts' = Append(t_stmts, RoundTrip("DESCRIBE TABLES", t_spec.keyspace, 0,
                                                    "Describe tables;", ok))
            /\ t_allok' = (t_allok /\ ok)
            /\ IF ~ok
               THEN /\ tbl_finish(TblFail("Bad returncode"))
                    /\ UNCHANGED t_exists
               ELSE /\ t_exists' = exists
                    /\ IF t_spec.state = "absent" /\ ~exists
                       THEN tbl_finish(TblExit(FALSE))
                       ELSE /\ t_pc' = IF t_spec.state = "absent" THEN "drop" ELSE "create"
                            /\ UNCHANGED <<t_result, t_results>>
    /\ UNCHANGED <<tables, t_spec, t_initial>>
tbl_exists ==
    /\ t_pc = "exists"
    /\ \E ok \in BOOLEAN :
        LET out == DescTablesOut(tables)
            exists == token_in_output(t_spec.name, out)
        IN  /\ t_stmts' = Append(t_stmts, RoundTrip("DESCRIBE TABLES", t_spec.keyspace, 0,
                                                    "Describe tables;", ok))
            /\ t_allok' = (t_allok /\ ok)
            /\ IF ~ok
               THEN /\ tbl_finish(TblFail("Bad returncode"))
                    /\ UNCHANGED t_exists
               ELSE /\ t_exists' = exists
                    /\ IF (t_spec.state = "present") = exists
                       THEN tbl_finish(TblExit(FALSE))
                       ELSE /\ t_pc' = IF exists THEN "drop" ELSE "create"
                            /\ UNCHANGED <<t_result, t_results>>
    /\ UNCHANGED <<tables, t_spec, t_initial>>

\* main(): create_table(...) inside try/except/else
\* (tbl_create_rechecked: variant that looks at the store again before it
\* writes, and sends nothing when the table has appeared since the read)
tbl_create_rechecked ==
    /\ t_pc = "create"
    /\ IF tables[t_spec.name].exists
       THEN /\ tbl_finish(TblExit(FALSE))
            /\ UNCHANGED <<tables, t_stmts, t_allok>>
       ELSE \E ok \in BOOLEAN :
        LET cmd == create_table_cmd(t_spec.name, t_spec.columns, t_spec.primary_keys,
                                    t_spec.order_by, t_spec.order_by_direction)
        IN  /\ t_stmts' = Append(t_stmts, RoundTrip("CREATE", t_spec.name, 0, cmd, ok))
            /\ t_allok' = (t_allok /\ ok)
            /\ tables' = IF ok THEN [tables EXCEPT ![t_spec.name] = NewTbl(cmd)] ELSE tables
            /\ tbl_finish(IF ok THEN TblExit(TRUE)
                          ELSE TblFail("Error creating table: Bad returncode"))
    /\ UNCHANGED <<t_spec, t_exists, t_initial>>
tbl_create ==
    /\ t_pc = "create"
    /\ \E ok \in BOOLEAN :
        LET cmd == create_table_cmd(t_spec.name, t_spec.columns, t_spec.primary_keys,
                                    t_spec.order_by, t_spec.order_by_direction)
        IN  /\ t_stmts' = Append(t_stmts, RoundTrip("CREATE", t_spec.name, 0, cmd, ok))
            /\ t_allok' = (t_allok /\ ok)
            /\ tables' = IF ok THEN [tables EXCEPT ![t_spec.name] = NewTbl(cmd)] ELSE tables
            /\ tbl_finish(IF ok THEN TblExit(TRUE)
                          ELSE TblFail("Error creating table: Bad returncode"))
    /\ UNCHANGED <<t_spec, t_exists, t_initial>>

\* main(): drop_table(...) inside try/except/else
\* (tbl_drop_unchecked: variant whose drop_table does not look at the
\* return code, so that main() always reaches the else clause)
tbl_drop_unchecked ==
    /\ t_pc = "drop"
    /\ \E ok \in BOOLEAN :
        /\ t_stmts' = Append(t_stmts, RoundTrip("DROP", t_spec.name, 0,
                                                drop_table_cmd(t_spec.name), ok))
        /\ t_allok' = (t_allok /\ ok)
        /\ tables' = IF ok THEN [tables EXCEPT ![t_spec.name] = AbsentTbl] ELSE tables
        /\ tbl_finish(TblExit(TRUE))
    /\ UNCHANGED <<t_spec, t_exists, t_initial>>
tbl_drop ==
    /\ t_pc = "drop"
    /\ \E ok \in BOOLEAN :
        /\ t_stmts' = Append(t_stmts, RoundTrip("DROP", t_spec.name, 0,
                                                drop_table_cmd(t_spec.name), ok))
        /\ t_allok' = (t_allok /\ ok)
        /\ tables' = IF ok THEN [tables EXCEPT ![t_spec.name] = AbsentTbl] ELSE tables
        /\ tbl_finish(IF ok THEN TblExit(TRUE)
                      ELSE TblFail("Error deleting table: Bad returncode"))
    /\ UNCHANGED <<t_spec, t_exists, t_initial>>

\* the caller runs the module again with the same parameters
tbl_run_again ==
    /\ t_pc = "done"
    /\ Len(t_results) < MaxCalls
    /\ t_pc' = "validate"
    /\ t_exists' = FALSE
    /\ t_stmts' = <<>>
    /\ t_result' = NoTblResult
    /\ UNCHANGED <<tables, t_spec, t_results, t_allok, t_initial>>

NextTbl ==
    \/ tbl_validate /\ UNCHANGED <<p_vars, k_vars, u_vars>>
    \/ tbl_exists /\ UNCHANGED <<p_vars, k_vars, u_vars>>
    \/ tbl_create /\ UNCHANGED <<p_vars, k_vars, u_vars>>
    \/ tbl_drop /\ UNCHANGED <<p_vars, k_vars, u_vars>>
    \/ tbl_run_again /\ UNCHANGED <<p_vars, k_vars, u_vars>>

(***************************************************************************)
(*        cassandra_table.py run by a second process on the same store     *)
(***************************************************************************)
\* Nothing in main() takes a lock or opens a transaction: a second process
\* runs the same code against the same store, its round trips falling
\* anywhere between the first one's.
IdleTbl2 ==
    /\ u_spec = CHOOSE sp \in ExampleSpecs : sp.state = "present"
    /\ u_pc = "idle"
    /\ u_exists = FALSE
    /\ u_stmts = <<>>
    /\ u_result = NoTblResult

\* the parameter sets of two processes working on the table `events`: the
\* documented example, a two-column table, and a column list that fails
\* validation
ConcurrentTableSpecs ==
    ExampleSpecs \cup
    [name : {"events"}, keyspace : {"pluto"},
     columns : { <<[name |-> "a", type |-> "int"], [name |-> "b", type |-> "text"]>>,
                 <<[name |-> "a"]>> },
     primary_keys : {<<"a">>}, order_by : {NoOrderBy}, order_by_direction : {"ASC"},
     state : States]

InitTbl2 ==
    /\ u_spec \in ConcurrentTableSpecs
    /\ u_pc = "validate"
    /\ u_exists = FALSE
    /\ u_stmts = <<>>
    /\ u_result = NoTblResult

\* main(): column_errors = validate_columns(columns); fail_json if any
tbl2_validate ==
    /\ u_pc = "validate"
    /\ LET column_errors == validate_columns(u_spec.columns)
       IN  IF Len(column_errors) > 0
           THEN /\ u_result' = TblInvalid(column_errors)
                /\ u_pc' = "done"
           ELSE /\ u_pc' = "exists"
                /\ UNCHANGED u_result
    /\ UNCHANGED <<tables, u_spec, u_exists, u_stmts>>

\* main(): exists = table_already_exists(...), then the branch on state and
\* exists up to the next round trip
tbl2_exists ==
    /\ u_pc = "exists"
    /\ \E ok \in BOOLEAN :
        LET out == DescTablesOut(tables)
            exists == token_in_output(u_spec.name, out)
        IN  /\ u_stmts' = Append(u_stmts, RoundTrip("DESCRIBE TABLES", u_spec.keyspace, 0,
                                                    "Describe tables;", ok))
            /\ IF ~ok
               THEN /\ u_result' = TblFail("Bad returncode")
                    /\ u_pc' = "done"
                    /\ UNCHANGED u_exists
               ELSE /\ u_exists' = exists
                    /\ IF (u_spec.state = "present") = exists
                       THEN /\ u_result' = TblExit(FALSE)
                            /\ u_pc' = "done"
                       ELSE /\ u_pc' = IF exists THEN "drop" ELSE "create"
                            /\ UNCHANGED u_result
    /\ UNCHANGED <<tables, u_spec>>

\* main(): create_table(...) inside try/except/else
tbl2_create ==
    /\ u_pc = "create"
    /\ \E ok \in BOOLEAN :
        LET cmd == create_table_cmd(u_spec.name, u_spec.columns, u_spec.primary_keys,
                                    u_spec.order_by, u_spec.order_by_direction)
        IN  /\ u_stmts' = Append(u_stmts, RoundTrip("CREATE", u_spec.name, 0, cmd, ok))
            /\ tables' = IF ok THEN [tables EXCEPT ![u_spec.name] = NewTbl(cmd)] ELSE tables
            /\ u_result' = IF ok THEN TblExit(TRUE)
                           ELSE TblFail("Error creating table: Bad returncode")
            /\ u_pc' = "done"
    /\ UNCHANGED <<u_spec, u_exists>>

\* main(): drop_table(...) inside try/except/else
tbl2_drop ==
    /\ u_pc = "drop"
    /\ \E ok \in BOOLEAN :
        /\ u_stmts' = Append(u_stmts, RoundTrip("DROP", u_spec.name, 0,
                                                drop_table_cmd(u_spec.name), ok))
        /\ tables' = IF ok THEN [tables EXCEPT ![u_spec.name] = AbsentTbl] ELSE tables
        /\ u_result' = IF ok THEN TblExit(TRUE)
                       ELSE TblFail("Error deleting table: Bad returncode")
        /\ u_pc' = "done"
    /\ UNCHANGED <<u_spec, u_exists>>

t_own == <<t_spec, t_pc, t_exists, t_stmts, t_result, t_results, t_allok, t_initial>>
NextTbl2 ==
    \/ tbl2_validate /\ UNCHANGED <<p_vars, k_vars, t_own>>
    \/ tbl2_exists /\ UNCHANGED <<p_vars, k_vars, t_own>>
    \/ tbl2_create /\ UNCHANGED <<p_vars, k_vars, t_own>>
    \/ tbl2_drop /\ UNCHANGED <<p_vars, k_vars, t_own>>

(***************************************************************************)
(*                           specifications                                *)
(***************************************************************************)
\* each module is run on its own; the other two stay idle
ProbeInit == InitProbe /\ IdleKs /\ IdleTbl /\ IdleTbl2
KsInit == IdleProbe /\ InitKs /\ IdleTbl /\ IdleTbl2
TblInit == IdleProbe /\ IdleKs /\ InitTbl /\ IdleTbl2

ProbeSpec == ProbeInit /\ [][NextProbe]_vars
KsSpec == KsInit /\ [][NextKs]_vars
TblSpec == TblInit /\ [][NextTbl]_vars

\* the keyspace module run over and over with the same parameters, by a
\* caller that keeps no record of the earlier reports; the module is
\* single-threaded and blocking, so a call that has started takes its next
\* step, and the caller always runs it again
ks_run_forever ==
    /\ k_pc = "done"
    /\ k_pc' = "exists"
    /\ k_exists' = FALSE
    /\ k_stmts' = <<>>
    /\ k_result' = NoResult
    /\ k_results' = <<>>
    /\ k_out' = <<>>
    /\ UNCHANGED <<keyspaces, k_spec, k_allok, k_initial>>
NextKsLoop ==
    \/ ks_exists /\ UNCHANGED <<p_vars, t_vars, u_vars>>
    \/ ks_describe /\ UNCHANGED <<p_vars, t_vars, u_vars>>
    \/ ks_create /\ UNCHANGED <<p_vars, t_vars, u_vars>>
    \/ ks_run_forever /\ UNCHANGED <<p_vars, t_vars, u_vars>>
KsLoopSpec == KsInit /\ [][NextKsLoop]_vars /\ WF_vars(NextKsLoop)

\* two processes reconcile tables of the same keyspace at the same time
ConcurrentInit ==
    IdleProbe /\ IdleKs /\ InitTbl /\ t_spec \in ConcurrentTableSpecs /\ InitTbl2
ConcurrentNext == NextTbl \/ NextTbl2
ConcurrentSpec == ConcurrentInit /\ [][ConcurrentNext]_vars

\* either reconciler, run on its own
ReconcileInit == KsInit \/ TblInit
ReconcileNext == NextKs \/ NextTbl
ReconcileSpec == ReconcileInit /\ [][ReconcileNext]_vars

(***************************************************************************)
(*                              properties                                 *)
(***************************************************************************)
\* ---- helpers of the properties ----
\* the store failed every attempt made so far
AllFailed == \A i \in 1..Len(history) : history[i] # "ok"
\* the distinct stderr texts of the failed attempts
FailureTexts == {history[i] : i \in 1..Len(history)} \ {"ok"}
\* the first call has ended and no other has started
FirstCallDone == k_pc = "done" /\ Len(k_results) = 1
StmtsOfKind(stmts, kind) == {i \in 1..Len(stmts) : stmts[i].kind = kind}
MutatingStmts(stmts) == {i \in 1..Len(stmts) : stmts[i].kind \in Mutating}
Drifted == k_initial.exists /\ k_initial.rf # k_spec.replication_factor

\* C1: two successive keyspace reconcile calls with the same spec (desired
\* present), every round trip succeeding: the first ends in exit_json, the
\* second in exit_json(changed=False) -- from every initial state of the
\* keyspace (absent, present and matching, present and drifted).
C1_KeyspaceIdempotent ==
    (k_spec.state = "present" /\ k_spec.replication_factor >= 1 /\ k_allok
        /\ Len(k_results) >= 2)
        => /\ k_results[1].kind = "exit"
           /\ k_results[2] = ExitJson(FALSE)

\* C3: the keyspace exists with another replication factor than the desired
\* one: the call sends exactly one ALTER KEYSPACE carrying the desired
\* factor and reports changed=True (and the next call changed=False).
C3_DriftCorrected ==
    (k_spec.state = "present" /\ k_spec.replication_factor >= 1 /\ Drifted
        /\ k_allok /\ FirstCallDone)
        => /\ k_result = ExitJson(TRUE)
           /\ Cardinality(StmtsOfKind(k_stmts, "ALTER")) = 1
           /\ \A i \in StmtsOfKind(k_stmts, "ALTER") :
                  k_stmts[i].rf = k_spec.replication_factor

\* C10: the keyspace is absent and desired present: after the existence
\* query the call sends exactly one statement, the CREATE KEYSPACE of the
\* declared name and replication factor under SimpleStrategy, no describe
\* and no ALTER, and reports changed=True when the statement succeeds.
C10_CreateText ==
    "CREATE KEYSPACE " \o k_spec.name
        \o " WITH replication = {'class':'SimpleStrategy', 'replication_factor' : "
        \o ToString(k_spec.replication_factor) \o "};"
C10_KeyspaceCreated ==
    (k_spec.state = "present" /\ ~k_initial.exists /\ FirstCallDone /\ k_stmts[1].ok)
        => /\ Len(k_stmts) = 2
           /\ k_stmts[1].kind = "DESC KEYSPACES"
           /\ k_stmts[2].kind = "CREATE"
           /\ k_stmts[2].cmd = C10_CreateText
           /\ k_stmts[2].name = k_spec.name
           /\ k_stmts[2].rf = k_spec.replication_factor
           /\ k_stmts[2].ok =>
                /\ k_result = ExitJson(TRUE)
                /\ keyspaces[k_spec.name] = PresentKs(k_spec.replication_factor)
           /\ ~k_stmts[2].ok => k_result.kind = "fail"
C10_Witness ==
    /\ k_spec.state = "present" /\ ~k_initial.exists /\ FirstCallDone
    /\ k_spec.replication_factor = 3 /\ k_spec.name = "test_keyspace"
    /\ Len(k_stmts) = 2 /\ k_stmts[2].ok
    /\ k_result = ExitJson(TRUE)

\* C5: against a store that fails every attempt, the probe with
\* retries = N >= 1 never makes more than N attempts, never reports
\* success, is never stuck before it has reported, and ends having made
\* exactly N attempts and reported failure.
C5_BoundedRetry ==
    (retries >= 1 /\ AllFailed)
        => /\ attempts <= retries
           /\ attempts = count
           /\ p_pc = "loop" => ENABLED NextProbe
           /\ p_result.kind # "exit"
           /\ p_pc = "done" => (attempts = retries /\ p_result.kind = "fail")
C5_Witness ==
    /\ p_pc = "done" /\ retries = 3 /\ AllFailed
    /\ attempts = 3 /\ p_result.kind = "fail"

\* C6 as claimed: against a store that fails every attempt, the probe with
\* retries = N sleeps exactly N-1 times.
C6_SleepsBetweenAttempts ==
    (retries >= 1 /\ AllFailed /\ p_pc = "done") => sleeps = retries - 1
\* C6 as amended: the probe sleeps once after every failed attempt, the
\* final one included: exactly N times against a store that fails every
\* attempt (N=3 gives 3 sleeps), and never after a successful attempt.
C6_SleepsAfterEveryFailure ==
    /\ sleeps = Cardinality({i \in 1..Len(history) : history[i] # "ok"})
    /\ (retries >= 1 /\ AllFailed /\ p_pc = "done") => sleeps = retries
C6_Witness ==
    /\ p_pc = "done" /\ retries = 3 /\ AllFailed
    /\ Len(history) = 3 /\ sleeps = 3

\* C7: when the probe is exhausted, the reported collection holds each
\* distinct failure text exactly once.
C7_DistinctErrors ==
    (p_pc = "done" /\ p_result.kind = "fail")
        => /\ Len(p_result.msg) = Cardinality(FailureTexts)
           /\ {p_result.msg[i].args : i \in 1..Len(p_result.msg)} = FailureTexts

\* C8: the store fails the first k attempts and succeeds on attempt k+1
\* (k+1 <= retries): the probe reports exit_json(changed=False) after
\* exactly k+1 attempts, makes no attempt after the successful one, and a
\* run with a successful attempt never reports failure.
C8_SuccessPath ==
    /\ attempts = Len(history)
    /\ \A i \in 1..Len(history) : history[i] = "ok" => i = Len(history)
    /\ (Len(history) > 0 /\ history[Len(history)] = "ok")
          => /\ p_pc = "done"
             /\ p_result = [kind |-> "exit", changed |-> FALSE, msg |-> <<>>]
             /\ attempts <= retries
    /\ p_result.kind = "fail" => AllFailed
    /\ p_result.kind = "exit" => (Len(history) > 0 /\ history[Len(history)] = "ok")
C8_Witness ==
    /\ Len(history) = 2 /\ history[1] = "connection refused" /\ history[2] = "ok"
    /\ p_pc = "done" /\ attempts = 2 /\ p_result.kind = "exit" /\ ~p_result.changed

\* ---- helpers of the table properties ----
ColumnNames(columns) == {columns[i].name : i \in 1..Len(columns)}
\* a TableSpec as the data model declares it: every column with a name and
\* a type, names unique, a non-empty primary key drawn from the columns
ValidTableSpec(sp) ==
    /\ Len(sp.columns) >= 1
    /\ \A i \in 1..Len(sp.columns) : DOMAIN sp.columns[i] = {"name", "type"}
    /\ \A i, j \in 1..Len(sp.columns) :
           sp.columns[i].name = sp.columns[j].name => i = j
    /\ Len(sp.primary_keys) >= 1
    /\ Range(sp.primary_keys) \subseteq ColumnNames(sp.columns)
\* the (column, key) pairs that are missing
MissingPairs(columns) ==
    {<<i, key>> \in (1..Len(columns)) \X {"name", "type"} : key \notin DOMAIN columns[i]}

\* C2: two successive table reconcile calls with the same valid TableSpec,
\* every round trip succeeding: the first reports changed exactly when the
\* table's initial state differs from the desired one, the second reports
\* exit_json(changed=False).
C2_TableIdempotent ==
    (ValidTableSpec(t_spec) /\ t_allok /\ Len(t_results) >= 2)
        => /\ t_results[1] = TblExit(t_initial # (t_spec.state = "present"))
           /\ t_results[2] = TblExit(FALSE)
C2_Witness ==
    /\ ValidTableSpec(t_spec) /\ t_allok /\ Len(t_results) = 2
    /\ t_results[1].changed /\ t_spec.state = "absent" /\ t_initial
    /\ t_results[2] = TblExit(FALSE)

\* C4: whenever a column lacks 'name' or 'type', the call makes no round
\* trip to the store and ends in fail_json with one error for every missing
\* key of every column.
C4_ValidationExhaustive ==
    MissingPairs(t_spec.columns) # {}
        => /\ t_stmts = <<>>
           /\ t_pc \in {"validate", "done"}
           /\ t_pc = "done" =>
                /\ t_result.kind = "fail"
                /\ Len(t_result.errors) = Cardinality(MissingPairs(t_spec.columns))
                /\ \A p \in MissingPairs(t_spec.columns) :
                       \E e \in 1..Len(t_result.errors) :
                           t_result.errors[e] = MissingKey(p[2], t_spec.columns[p[1]])
C4_Witness ==
    /\ t_pc = "done" /\ Len(t_spec.columns) = 2
    /\ "name" \notin DOMAIN t_spec.columns[1] /\ "type" \in DOMAIN t_spec.columns[1]
    /\ "type" \notin DOMAIN t_spec.columns[2] /\ "name" \in DOMAIN t_spec.columns[2]
    /\ Len(t_result.errors) = 2 /\ t_stmts = <<>>

\* C9: for a table that is absent and desired present, the statement sent
\* is 'CREATE TABLE <name>(<columns>, PRIMARY KEY (<keys>))', then
\* ' WITH CLUSTERING ORDER BY (...)' when order_by is non-empty, then ';';
\* for the documented example it is the literal text below, and the call
\* reports changed=True. (Stated for a non-empty order_by; the statement
\* without a clustering clause is C18's.)
C9_ExampleText ==
    "CREATE TABLE events(datastream text, time timestamp, value float, PRIMARY KEY (datastream, time)) WITH CLUSTERING ORDER BY (time DESC);"
C9_ClaimedText(sp) ==
    "CREATE TABLE " \o sp.name \o "(" \o join(", ", column_defs(sp.columns))
        \o ", PRIMARY KEY (" \o join(", ", sp.primary_keys) \o "))"
        \o (IF truthy(sp.order_by)
            THEN " WITH CLUSTERING ORDER BY (" \o join(", ", sp.order_by.cols)
                     \o " " \o sp.order_by_direction \o ")"
            ELSE "")
        \o ";"
C9_CreateStatement ==
    (ValidTableSpec(t_spec) /\ t_spec.state = "present" /\ ~t_initial /\ t_allok
        /\ truthy(t_spec.order_by) /\ t_pc = "done" /\ Len(t_results) = 1)
        => /\ Len(t_stmts) = 2
           /\ t_stmts[2].kind = "CREATE"
           /\ t_stmts[2].cmd = C9_ClaimedText(t_spec)
           /\ t_spec \in ExampleSpecs => t_stmts[2].cmd = C9_ExampleText
           /\ t_result = TblExit(TRUE)

\* ---- helpers of the properties on one table call ----
FirstTblCallDone == t_pc = "done" /\ Len(t_results) = 1

\* C11: the table is already in the keyspace and desired present: the call
\* reports changed=False and sends, after the existence query, no statement
\* at all, whatever columns, primary key and ordering are declared; the
\* store's table is as it was.
C11_NoStructuralDiff ==
    (t_spec.state = "present" /\ t_initial /\ FirstTblCallDone
        /\ MissingPairs(t_spec.columns) = {} /\ t_stmts[1].ok)
        => /\ t_result = TblExit(FALSE)
           /\ Len(t_stmts) = 1
           /\ t_stmts[1].kind = "DESCRIBE TABLES"
           /\ tables[t_spec.name] = OldTbl
C11_Witness ==
    /\ t_spec \in ExampleSpecs /\ t_spec.state = "present" /\ t_initial
    /\ FirstTblCallDone /\ t_stmts[1].ok
    /\ t_result = TblExit(FALSE) /\ tables["events"] = OldTbl

\* C12: every keyspace reconcile call ends in exit_json or in fail_json; a
\* describe-keyspace query that fails, or whose output has no brace group or
\* no replication_factor key, ends in fail_json.
C12_ExplicitOutcome ==
    (k_pc = "done" /\ k_spec.replication_factor >= 1)
        => /\ k_result.kind \in {"exit", "fail"}
           /\ \A i \in StmtsOfKind(k_stmts, "DESCRIBE KEYSPACE") :
                  ~k_stmts[i].ok => k_result.kind = "fail"

\* C14: with state=absent the call on an existing keyspace sends exactly one
\* DROP KEYSPACE of that name and reports changed=True, and the call on a
\* keyspace that does not exist sends no statement and reports
\* changed=False.
C14_KeyspaceRemoved ==
    (k_spec.state = "absent" /\ k_spec.replication_factor >= 1 /\ k_allok
        /\ FirstCallDone)
        => IF k_initial.exists
           THEN /\ k_result = ExitJson(TRUE)
                /\ Cardinality(MutatingStmts(k_stmts)) = 1
                /\ \A i \in MutatingStmts(k_stmts) :
                       k_stmts[i].kind = "DROP" /\ k_stmts[i].name = k_spec.name
                /\ ~keyspaces[k_spec.name].exists
           ELSE /\ k_result = ExitJson(FALSE)
                /\ MutatingStmts(k_stmts) = {}

\* C20: every CREATE KEYSPACE or ALTER KEYSPACE sent carries a replication
\* factor of at least 1.
C20_ReplicationFactorBound ==
    \A i \in 1..Len(k_stmts) :
        k_stmts[i].kind \in {"CREATE", "ALTER"} => k_stmts[i].rf >= 1

\* ---- helpers of the properties on the CREATE TABLE text ----
\* the table is absent, desired present, and the first call has sent its
\* statements, each with status 0
CreatedByFirstCall ==
    /\ ValidTableSpec(t_spec) /\ t_spec.state = "present" /\ ~t_initial
    /\ t_allok /\ FirstTblCallDone
CreateHead(sp) ==
    "CREATE TABLE " \o sp.name \o "(" \o join(", ", column_defs(sp.columns))
        \o ", PRIMARY KEY (" \o join(", ", sp.primary_keys) \o "))"

\* C18: with order_by empty or not given, the statement sent for an absent
\* table is 'CREATE TABLE <name>(<columns>, PRIMARY KEY (<keys>));': no
\* clustering clause, and the terminating ';'.
C18_NoClusteringStatement ==
    (CreatedByFirstCall /\ ~truthy(t_spec.order_by))
        => /\ Len(t_stmts) = 2
           /\ t_stmts[2].kind = "CREATE"
           /\ t_stmts[2].cmd = CreateHead(t_spec) \o ";"

\* C19: with two or more order_by columns the clustering clause renders
\* every column followed by the direction, in declared order:
\* '(<col1> <dir>, <col2> <dir>)'. (Either spacing before WITH is accepted:
\* that is C9's.)
C19_ClusteringClause(sp) ==
    "WITH CLUSTERING ORDER BY ("
        \o join(", ", [i \in 1..Len(sp.order_by.cols) |->
                           sp.order_by.cols[i] \o " " \o sp.order_by_direction])
        \o ");"
C19_EveryColumnDirected ==
    (CreatedByFirstCall /\ t_spec.order_by.given /\ Len(t_spec.order_by.cols) >= 2
        /\ Range(t_spec.order_by.cols) \subseteq ColumnNames(t_spec.columns))
        => /\ Len(t_stmts) = 2
           /\ t_stmts[2].kind = "CREATE"
           /\ t_stmts[2].cmd \in
                 { CreateHead(t_spec) \o sep \o C19_ClusteringClause(t_spec) :
                       sep \in {"", " "} }

\* ---- helpers of the properties on both reconcilers ----
\* this step is the existence query of a call, and it returned non-zero
KsReadFails == k_pc = "exists" /\ k_stmts' # k_stmts /\ ~k_stmts'[Len(k_stmts')].ok
TblReadFails == t_pc = "exists" /\ t_stmts' # t_stmts /\ ~t_stmts'[Len(t_stmts')].ok

\* C13: an existence query (list keyspaces, list tables) that returns a
\* non-zero status ends the call in fail_json: it is the call's only round
\* trip, the store is as it was, and nothing is sent after the report until
\* the module is run again.
C13_ReadFailureFatal ==
    [][ /\ KsReadFails => /\ k_pc' = "done"
                          /\ k_result'.kind = "fail"
                          /\ Len(k_stmts') = 1
                          /\ keyspaces' = keyspaces
        /\ k_pc = "done" => /\ keyspaces' = keyspaces
                            /\ k_stmts' = k_stmts \/ (k_pc' = "exists" /\ k_stmts' = <<>>)
        /\ TblReadFails => /\ t_pc' = "done"
                           /\ t_result'.kind = "fail"
                           /\ Len(t_stmts') = 1
                           /\ tables' = tables
        /\ t_pc = "done" => /\ tables' = tables
                            /\ t_stmts' = t_stmts \/ (t_pc' = "validate" /\ t_stmts' = <<>>)
      ]_vars
C13_Witness ==
    /\ k_pc = "done" /\ k_spec.state = "present" /\ k_initial.exists
    /\ k_initial.rf # k_spec.replication_factor
    /\ Len(k_stmts) = 1 /\ ~k_stmts[1].ok /\ k_result.kind = "fail"
    /\ keyspaces[k_spec.name] = k_initial

\* C16: a reconcile call sends at most one mutating statement (CREATE,
\* ALTER, DROP), as its last round trip; if the statement fails the call
\* reports fail_json, not changed=True.
C16_NoRetryOfDDL ==
    /\ Cardinality(MutatingStmts(k_stmts)) <= 1
    /\ \A i \in MutatingStmts(k_stmts) :
           /\ i = Len(k_stmts) /\ k_pc = "done"
           /\ ~k_stmts[i].ok => (k_result.kind = "fail" /\ ~k_result.changed)
    /\ Cardinality(MutatingStmts(t_stmts)) <= 1
    /\ \A i \in MutatingStmts(t_stmts) :
           /\ i = Len(t_stmts) /\ t_pc = "done"
           /\ ~t_stmts[i].ok => (t_result.kind = "fail" /\ ~t_result.changed)
C16_Witness ==
    /\ t_pc = "done" /\ Len(t_stmts) = 2
    /\ t_stmts[2].kind = "CREATE" /\ ~t_stmts[2].ok
    /\ t_result.kind = "fail"
    /\ ~tables[t_spec.name].exists

\* C15: the keyspace module is run again and again with the same spec
\* (desired present), every round trip succeeding: from every initial state
\* some call eventually reports changed=False with the keyspace present at
\* the desired replication factor. (k_allok never turns true again, so
\* "every round trip succeeds" is "k_allok is never false".)
Converged ==
    /\ k_pc = "done"
    /\ k_result = ExitJson(FALSE)
    /\ keyspaces[k_spec.name] = PresentKs(k_spec.replication_factor)
C15_ConvergesByRerunning ==
    (k_spec.state = "present" /\ k_spec.replication_factor >= 1)
        => <>(Converged \/ ~k_allok)

\* C17: two processes reconcile the same table with nothing between a
\* process's read and its write: while one is between the two, the other is
\* free to take its next step (no lock), and a process whose read returned 0
\* and called for a write ends having sent exactly that write (CREATE if it
\* read the table as absent, DROP if it read it as present) and reports
\* changed=True when the write returns 0, whatever the store held by then
\* (no re-check). So both can decide to create the same absent table, and a
\* process is told changed=True for a table the other one then replaces or
\* removes.
WriteFollowsRead(spec, pc, exists, stmts, result) ==
    (/\ pc = "done"
     /\ Len(stmts) >= 1
     /\ stmts[1].ok
     /\ (spec.state = "present") # exists)
    => /\ Len(stmts) = 2
       /\ stmts[2].kind = (IF exists THEN "DROP" ELSE "CREATE")
       /\ stmts[2].name = spec.name
       /\ stmts[2].ok => result = TblExit(TRUE)
       /\ ~stmts[2].ok => result.kind = "fail"
C17_ConcurrentUnsafe ==
    /\ (t_pc \in {"create", "drop"} /\ u_pc \in {"validate", "exists", "create", "drop"})
           => ENABLED NextTbl2
    /\ (u_pc \in {"create", "drop"} /\ t_pc \in {"validate", "exists", "create", "drop"})
           => ENABLED NextTbl
    /\ WriteFollowsRead(t_spec, t_pc, t_exists, t_stmts, t_result)
    /\ WriteFollowsRead(u_spec, u_pc, u_exists, u_stmts, u_result)
\* both processes read the table as absent and decided to create it, with
\* different structures; the first has created it and been told
\* changed=True, the second is about to send its own CREATE
C17_Witness ==
    /\ t_spec.name = u_spec.name
    /\ t_spec.state = "present" /\ u_spec.state = "present"
    /\ t_spec.columns # u_spec.columns
    /\ Len(t_results) = 1 /\ t_pc = "done" /\ ~t_exists
    /\ Len(t_stmts) = 2 /\ t_stmts[2].kind = "CREATE" /\ t_result = TblExit(TRUE)
    /\ u_pc = "create" /\ ~u_exists /\ Len(u_stmts) = 1 /\ u_stmts[1].ok
    /\ tables[t_spec.name] = NewTbl(t_stmts[2].cmd)

\* the first brace group of a describe output gives `rf` as its
\* replication_factor
FirstGroupGives(out, rf) ==
    \E i \in 1..Len(out) :
        /\ out[i].brace
        /\ \A j \in 1..(i - 1) : ~out[j].brace
        /\ \E p \in 1..Len(out[i].pairs) :
               /\ out[i].pairs[p] = <<"replication_factor", ToString(rf)>>
               /\ \A q \in (p + 1)..Len(out[i].pairs) :
                      out[i].pairs[q][1] # "replication_factor"

\* C21: a keyspace call with state=present that found the keyspace and whose
\* "Describe keyspace" output gives, in its first brace group, the desired
\* replication factor ends with changed=False, has sent no CREATE, ALTER or
\* DROP, and leaves the keyspace as it was.
C21_MatchingIsNoOp ==
    (/\ k_pc = "done"
     /\ k_spec.state = "present"
     /\ k_exists
     /\ FirstGroupGives(k_out, k_spec.replication_factor))
    => /\ k_result = ExitJson(FALSE)
       /\ MutatingStmts(k_stmts) = {}
       /\ Len(k_stmts) = 2
       /\ keyspaces[k_spec.name] = PresentKs(k_spec.replication_factor)
\* the first call found the keyspace with the desired replication factor,
\* in a describe output that goes on with a table's brace groups
C21_Witness ==
    /\ k_pc = "done" /\ Len(k_results) = 1
    /\ k_spec.state = "present" /\ k_exists
    /\ k_initial = PresentKs(k_spec.replication_factor)
    /\ k_out = DescribeWithTableOut(k_spec.name, k_initial)
    /\ k_result = ExitJson(FALSE)

\* C22: in a keyspace or table call, exit_json(changed=True) is reported only
\* when the call sent exactly one mutating statement (CREATE, ALTER, DROP)
\* and it returned status 0; exit_json(changed=False) is reported only when
\* the call sent no mutating statement.
ChangedTracksMutations(result, stmts) ==
    /\ (result.kind = "exit" /\ result.changed)
          => /\ Cardinality(MutatingStmts(stmts)) = 1
             /\ \A i \in MutatingStmts(stmts) : stmts[i].ok
    /\ (result.kind = "exit" /\ ~result.changed)
          => MutatingStmts(stmts) = {}
C22_ChangedFlag ==
    /\ ChangedTracksMutations(k_result, k_stmts)
    /\ ChangedTracksMutations(t_result, t_stmts)
\* a table call dropped the table and reported changed=True
C22_Witness ==
    /\ t_pc = "done" /\ t_spec.state = "absent" /\ t_exists
    /\ Len(t_stmts) = 2 /\ t_stmts[2].kind = "DROP" /\ t_stmts[2].ok
    /\ t_result = TblExit(TRUE)
    /\ ~tables[t_spec.name].exists

\* C23: with retries zero or negative the probe makes no attempt and no
\* sleep, is not stuck at the loop test, and ends in fail_json with an empty
\* list of errors; and whatever the budget, it reports success only after an
\* attempt that succeeded.
C23_EmptyBudget ==
    /\ retries <= 0
          => /\ attempts = 0
             /\ sleeps = 0
             /\ history = <<>>
             /\ errors_set = {}
             /\ p_pc = "loop" => ENABLED budget_exhausted
             /\ p_pc = "done" => p_result = [kind |-> "fail", changed |-> FALSE, msg |-> <<>>]
    /\ p_result.kind = "exit"
          => (attempts >= 1 /\ history[Len(history)] = "ok")
\* the probe run with a negative budget has reported its failure
C23_Witness ==
    /\ retries < 0
    /\ p_pc = "done"
    /\ attempts = 0 /\ sleeps = 0
    /\ p_result.kind = "fail" /\ p_result.msg = <<>>

====
